---- MODULE Spec2Model ----
(***************************************************************************)
(* The catalog store (services/music_database.py, class MusicDatabase) and *)
(* the ingestion coordinator (scripts/cache_songs.py) of the               *)
(* RPI-Record-Interactor, as a state machine.                              *)
(*                                                                         *)
(* The SQLite file is modelled by its committed content (diskTracks,       *)
(* diskFingerprints) and by the content the open connection sees (tracks,  *)
(* fingerprints), which differ while a transaction is open.                *)
(***************************************************************************)
EXTENDS Integers, Sequences, FiniteSets, TLC

\* ------------------------------------------------------------------ bounds
\* Largest id AUTOINCREMENT hands out before add_track stops inserting.
MaxId == 2
\* Longest fingerprint list passed to add_fingerprints(_batch).
MaxTokens == 2
\* Chunk size of add_fingerprints_batch. The code uses 5000; the model scales
\* it down so that a list of MaxTokens tokens spans more than one chunk.
MAX_BATCH_SIZE == 1

\* Longest token list passed to find_matches.
MaxQuery == 3
\* find_matches takes the temporary-table path for more than this many
\* distinct hashes. The code uses 1000; scaled down with the query length.
TEMP_TABLE_MIN == 1
\* Config.min_absolute_matches. The default is 5; scaled down with the query
\* length.
min_absolute_matches == 2
\* Number of entries find_matches returns at most. The code uses 10; scaled
\* down with the number of tracks.
TOP_N == 1
\* Aligned counts above which the confidence is boosted by 1.1 and by 1.2. The
\* code uses 50 and 100; scaled down with the query length.
BOOST_LOW == 1
BOOST_HIGH == 2
\* recognize_audio_optimized gives up below this many fingerprints. The code
\* uses 20; scaled down with the query length.
MIN_FINGERPRINTS == 2

\* ------------------------------------------------------- program constants
\* The longest sample buffer handed to compute_stft.
MaxSamples == 12

\* The spectrograms handed to extract_peaks: frames, bins, and the levels a
\* cell can have.
SpecFrames == 2
SpecBins == 3
MaxLevel == 2
\* Config.neighborhood_size (20 in the code).
neighborhood_size == 1

\* Config.stft_window_size, Config.min_time_delta, Config.max_time_delta.
stft_window_size == 2048
min_time_delta == 0
max_time_delta == 200

\* RecognitionBuffer.target_samples, the largest number of frames of one
\* add_audio call, and the number of samples added in all.
target_samples == 2
MaxFrames == 3
MaxAdded == 4

\* The number of recognition threads a FingerprintService creates in all.
MaxStarts == 3

MAX_RETRIES == 3
\* add_track's return value for a path that is already stored.
ALREADY_EXISTS == -1

\* ------------------------------------------------------------- input sets
\* As many hashes as a list has tokens, so that the longest list can be free of
\* duplicates.
Hashes == 1..MaxTokens
Frames == {0}
\* A token is a (hash, anchor_frame) pair.
Tokens == Hashes \X Frames
\* The fingerprint lists of direct calls. The store treats hashes as opaque
\* keys, so a call with any list is, up to a renaming of the hashes, a call
\* with a list whose hashes do not decrease: only those are enumerated.
TokenLists ==
    {l \in UNION {[1..n -> Tokens] : n \in 0..MaxTokens} :
        \A k \in 1..(Len(l) - 1) : l[k][1] <= l[k + 1][1]}
Paths == {"a.flac", "b.mp3"}
TrackIds == 1..MaxId
\* The files a music folder can hold, by the fingerprints they yield: none
\* (silence), one token, and a list that spans more than one chunk.
LongList == [k \in 1..MaxTokens |-> <<k, 0>>]
FileContents == {<< >>, <<<<1, 0>>>>, LongList}
\* find_audio_files: the audio files of the folder, in directory order.
FileLists == {<<p>> : p \in Paths} \cup {<<p, q>> : <<p, q>> \in {x \in Paths \X Paths : x[1] # x[2]}}

VARIABLES
    diskTracks,        \* committed rows of table tracks: id -> row
    diskFingerprints,  \* committed rows of table fingerprints: <<hash, track_id, time_offset>>
    tracks,            \* table tracks as the connection sees it
    fingerprints,      \* table fingerprints as the connection sees it
    inTx,              \* the connection has an open transaction
    seq,               \* sqlite_sequence of tracks: largest id ever assigned
    trackCache,        \* MusicDatabase._track_cache: id -> TrackInfo
    statsCache,        \* MusicDatabase._stats_cache
    cacheExpired,      \* time.time() - _cache_time >= 60
    library,           \* the fingerprints FingerprintGenerator yields for each file
    batch,             \* activation record of add_fingerprints_batch
    run,               \* activation record of process_music_folder
    rb,                \* a RecognitionBuffer and the threads that call it
    svc,               \* a FingerprintService and its recognition threads
    lastOp             \* the last completed call, its arguments and its result

vars == <<diskTracks, diskFingerprints, tracks, fingerprints, inTx, seq,
          trackCache, statsCache, cacheExpired, library, batch, run, rb, svc,
          lastOp>>

store == <<diskTracks, diskFingerprints, tracks, fingerprints, inTx, seq>>
caches == <<trackCache, statsCache, cacheExpired>>

\* ---------------------------------------------------------------- helpers
EmptyTable == [i \in {} |-> 0]

Min(a, b) == IF a < b THEN a ELSE b

\* The rows of fingerprints with track_id = t (WHERE track_id = ?).
PostingsOf(fps, t) == {r \in fps : r[2] = t}

\* data = [(fp[0], track_id, fp[1]) for fp in chunk]
Rows(t, toks) == {<<toks[k][1], t, toks[k][2]>> : k \in DOMAIN toks}

\* executemany raises IntegrityError when two rows share the primary key
\* (hash, track_id, time_offset).
NoDuplicate(toks) == Cardinality(Rows(0, toks)) = Len(toks)

\* SELECT id FROM tracks WHERE audio_file_path = ?
IdsOfPath(tbl, p) == {i \in DOMAIN tbl : tbl[i].audio_file_path = p}

Without(tbl, t) == [i \in DOMAIN tbl \ {t} |-> tbl[i]]

\* _stats_cache = None
NoStats == [total_tracks |-> -1, total_fingerprints |-> -1]

\* The shape of lastOp; every call fills the fields it has.
Op(name) ==
    [op |-> name, t |-> 0, path |-> "", ret |-> 0, status |-> "ok",
     count |-> 0, before |-> -1, flag |-> FALSE,
     query |-> << >>, result |-> << >>, rows |-> {}, reads |-> 0,
     args |-> << >>, out |-> {}]

\* add_fingerprints_batch when no call is in progress. In a call: pc is the
\* statement to execute next ("done" once the call has returned or raised,
\* "crashed" once the process has stopped in it), attempt and i are the loop
\* variables, status is the outcome ("ok" or the exception raised), errors
\* counts the attempts that failed and prior holds the postings of t at entry.
IdleBatch ==
    [pc |-> "idle", t |-> 0, fps |-> <<>>, attempt |-> 0, i |-> 0, errors |-> 0,
     prior |-> {}, caller |-> "none", status |-> "ok"]

\* process_music_folder when no run is in progress. In a run: pc is "loop"
\* between two files, "file" inside process_file and "file_done" when it has
\* returned result; fatalAt is the index of the first file whose integrity
\* check failed; snap, ingested and count record the store at the entry of
\* process_file; meta tells whether extract_metadata returned a TrackInfo
\* for the file, decoded whether load_audio_file was called for it, and
\* stored whether its path was stored at the entry of process_file.
IdleRun ==
    [pc |-> "idle", files |-> <<>>, idx |-> 0, successful |-> 0, failed |-> 0,
     skipped |-> 0, reprocess |-> FALSE, fatalAt |-> 0, result |-> "",
     snap |-> {}, ingested |-> FALSE, count |-> 0,
     meta |-> FALSE, decoded |-> FALSE, stored |-> FALSE]

\* The threads that call a RecognitionBuffer.
Threads == {1, 2}

\* RecognitionBuffer.__init__: an empty deque and samples_added = 0, the lock
\* free (0), no thread inside a call. next is the number of samples added so
\* far (the next sample gets it as its value), recent the last
\* target_samples samples added, since the number of samples added since the
\* last returned chunk or clear.
NewBuffer ==
    [buffer |-> << >>, samples_added |-> 0, lock |-> 0,
     th |-> [i \in Threads |-> [pc |-> "idle", frames |-> 0, channels |-> 0,
                                ret |-> "", chunk |-> << >>, since |-> 0,
                                recent |-> << >>]],
     next |-> 0, recent |-> << >>, since |-> 0]

\* FingerprintService.__init__: not running, no recognition thread. loops
\* maps every thread that is executing _recognition_loop to its position;
\* ctl is the position of the thread that calls start and stop.
NewService ==
    [running |-> FALSE, recognition_thread |-> 0, started |-> 0,
     loops |-> EmptyTable, ctl |-> "idle"]

\* No call is in progress on the connection.
Idle == batch.pc = "idle" /\ run.pc = "idle"

\* ------------------------------------------------------------------- Init
\* MusicDatabase.__init__ on a new database file.
Init ==
    /\ diskTracks = EmptyTable
    /\ diskFingerprints = {}
    /\ tracks = EmptyTable
    /\ fingerprints = {}
    /\ inTx = FALSE
    /\ seq = 0
    /\ trackCache = EmptyTable
    /\ statsCache = NoStats
    /\ cacheExpired = FALSE
    /\ library = [p \in Paths |-> << >>]
    /\ rb = NewBuffer
    /\ svc = NewService
    /\ batch = IdleBatch
    /\ run = IdleRun
    /\ lastOp = Op("init")

\* Mutant of AddTrackReturn: the id of the stored row is returned for a path
\* that is already stored.
AddTrackReturnExisting(tbl, s, p) ==
    IF IdsOfPath(tbl, p) # {} THEN CHOOSE i \in IdsOfPath(tbl, p) : TRUE ELSE s + 1

\* ---------------------------------------------------------------- add_track
\* The value add_track returns for path p.
AddTrackReturn(tbl, s, p) ==
    IF IdsOfPath(tbl, p) # {} THEN ALREADY_EXISTS ELSE s + 1

\* Table tracks after add_track(p).
AddTrackRows(tbl, s, p) ==
    IF IdsOfPath(tbl, p) # {} THEN tbl
    ELSE tbl @@ ((s + 1) :> [audio_file_path |-> p, fingerprint_count |-> 0,
                             lyrics_file_path |-> "None"])

add_track(p) ==
    /\ Idle
    /\ IdsOfPath(tracks, p) = {} => seq < MaxId
    /\ LET id == AddTrackReturn(tracks, seq, p) IN
       /\ tracks' = AddTrackRows(tracks, seq, p)
       /\ diskTracks' = tracks'
       /\ lastOp' = [Op("add_track") EXCEPT !.path = p, !.ret = id,
                        !.flag = (IdsOfPath(tracks, p) # {}),
                        !.count = Cardinality(DOMAIN tracks)]
       /\ IF id = ALREADY_EXISTS
          THEN UNCHANGED <<seq, trackCache, statsCache, cacheExpired, inTx>>
          ELSE /\ seq' = id
               /\ trackCache' = Without(trackCache, id)
               /\ statsCache' = NoStats
               /\ inTx' = FALSE
               /\ UNCHANGED cacheExpired
    /\ UNCHANGED <<diskFingerprints, fingerprints, library, rb, svc, batch, run>>

\* ------------------------------------------------------------- delete_track
delete_track(t) ==
    /\ Idle
    /\ fingerprints' = fingerprints \ PostingsOf(fingerprints, t)
    /\ tracks' = Without(tracks, t)
    /\ diskFingerprints' = fingerprints'
    /\ diskTracks' = tracks'
    /\ trackCache' = Without(trackCache, t)
    /\ statsCache' = NoStats
    /\ lastOp' = [Op("delete_track") EXCEPT !.t = t,
                     !.flag = (t \in DOMAIN tracks),
                     !.count = IF t \in DOMAIN tracks
                               THEN tracks[t].fingerprint_count ELSE 0,
                     !.before = IF lastOp.op = "get_stats" THEN lastOp.ret ELSE -1]
    /\ inTx' = FALSE
    /\ UNCHANGED <<seq, cacheExpired, library, rb, svc, batch, run>>

\* ---------------------------------------------------------------- get_track
\* The TrackInfo get_track builds from a row of tracks.
TrackInfoOf(row) ==
    [audio_file_path |-> row.audio_file_path,
     lyrics_file_path |-> row.lyrics_file_path]

\* The cache after get_track(t): a row that is found is cached, a miss is not.
GetTrackCache(t) ==
    IF t \in DOMAIN trackCache \/ t \notin DOMAIN tracks THEN trackCache
    ELSE trackCache @@ (t :> TrackInfoOf(tracks[t]))

\* get_track(t) returns a TrackInfo (not None).
GetTrackFound(t) == t \in DOMAIN trackCache \/ t \in DOMAIN tracks

\* get_track(t) with table tbl and cache cache: the cached TrackInfo if there
\* is one, else the one built from the row.
GetTrackOf(tbl, cache, t) ==
    IF t \in DOMAIN cache THEN cache[t] ELSE TrackInfoOf(tbl[t])

\* get_track(t): the cached TrackInfo if there is one, else the TrackInfo of
\* the row, which is then cached, else None (an empty result).
get_track(t) ==
    /\ Idle
    /\ trackCache' = GetTrackCache(t)
    /\ lastOp' = [Op("get_track") EXCEPT !.t = t,
                     !.result = IF GetTrackFound(t)
                                THEN <<GetTrackOf(tracks, trackCache, t)>>
                                ELSE << >>]
    /\ UNCHANGED <<store, statsCache, cacheExpired, library, rb, svc, batch, run>>

\* --------------------------------------------------------- add_fingerprints
add_fingerprints(t, toks) ==
    /\ Idle
    /\ trackCache' = GetTrackCache(t)
    /\ IF ~GetTrackFound(t)
       THEN /\ lastOp' = [Op("add_fingerprints") EXCEPT !.t = t,
                             !.status = "ValueError"]
            /\ UNCHANGED <<fingerprints, diskFingerprints>>
       ELSE IF inTx
       THEN \* BEGIN inside an open transaction raises, before the try block
            /\ lastOp' = [Op("add_fingerprints") EXCEPT !.t = t,
                             !.status = "OperationalError"]
            /\ UNCHANGED <<fingerprints, diskFingerprints>>
       ELSE IF ~NoDuplicate(toks)
       THEN \* IntegrityError: rollback, re-raise
            /\ lastOp' = [Op("add_fingerprints") EXCEPT !.t = t,
                             !.status = "IntegrityError"]
            /\ UNCHANGED <<fingerprints, diskFingerprints>>
       ELSE /\ fingerprints' = (fingerprints \ PostingsOf(fingerprints, t))
                                  \cup Rows(t, toks)
            /\ diskFingerprints' = fingerprints'
            /\ lastOp' = [Op("add_fingerprints") EXCEPT !.t = t]
    /\ UNCHANGED <<diskTracks, tracks, inTx, seq, statsCache, cacheExpired,
                   library, rb, svc, batch, run>>

\* ---------------------------------------------------------------- get_stats
\* The dict get_stats returns.
StatsNow ==
    IF statsCache # NoStats /\ ~cacheExpired THEN statsCache
    ELSE [total_tracks |-> Cardinality(DOMAIN tracks),
          total_fingerprints |-> Cardinality(fingerprints)]

get_stats ==
    /\ Idle
    /\ statsCache' = StatsNow
    /\ cacheExpired' = FALSE
    /\ lastOp' = [Op("get_stats") EXCEPT !.ret = StatsNow.total_fingerprints,
                     !.flag = (lastOp.op = "delete_track" /\ lastOp.flag
                               /\ lastOp.before # -1),
                     !.before = IF lastOp.op = "delete_track" /\ lastOp.flag
                               THEN lastOp.before ELSE -1,
                     !.count = IF lastOp.op = "delete_track" /\ lastOp.flag
                               /\ lastOp.before # -1
                               THEN lastOp.count ELSE 0]
    /\ UNCHANGED <<store, trackCache, library, rb, svc, batch, run>>

\* 60 seconds pass since get_stats filled the cache.
Tick ==
    /\ statsCache # NoStats
    /\ ~cacheExpired
    /\ cacheExpired' = TRUE
    /\ UNCHANGED <<store, trackCache, statsCache, library, rb, svc, batch, run, lastOp>>

\* ---------------------------------------------------- add_fingerprints_batch
\* The chunk fingerprints[i:i + MAX_BATCH_SIZE].
Chunk(toks, i) == SubSeq(toks, i + 1, Min(i + MAX_BATCH_SIZE, Len(toks)))

\* Mutant of CanRetry: the bound of the retry test is off by one.
CanRetryOffByOne(attempt) == attempt < MAX_RETRIES

\* if attempt < MAX_RETRIES - 1: the handler checks integrity and lets the
\* loop go on; else: it re-raises.
CanRetry(attempt) == attempt < MAX_RETRIES - 1

\* The number of attempts a call has started.
AttemptsMade(b) == IF b.fps = << >> THEN 0 ELSE b.attempt + 1

\* The call returns (st = "ok") or raises (st names the exception).
BatchReturn(st) == batch' = [batch EXCEPT !.pc = "done", !.status = st]

\* Entry of add_fingerprints_batch(t, toks): an empty list returns at once.
BatchEnter(t, toks, caller) ==
    batch' = [IdleBatch EXCEPT !.t = t, !.fps = toks, !.caller = caller,
                 !.prior = PostingsOf(fingerprints, t),
                 !.pc = IF toks = << >> THEN "done" ELSE "begin"]

\* A direct call, for a stored track.
add_fingerprints_batch(t, toks) ==
    /\ Idle
    /\ t \in DOMAIN tracks
    /\ BatchEnter(t, toks, "api")
    /\ lastOp' = Op("add_fingerprints_batch")
    /\ UNCHANGED <<store, caches, library, rb, svc, run>>

\* except sqlite3.DatabaseError: rollback, then retry, or raise.
\* check is the outcome of PRAGMA integrity_check: "ok", "corrupt" (another
\* answer) or "error" (the statement itself raises).
BatchHandler(check) ==
    /\ tracks' = diskTracks
    /\ fingerprints' = diskFingerprints
    /\ inTx' = FALSE
    /\ IF CanRetry(batch.attempt)
       THEN IF check = "ok"
            THEN batch' = [batch EXCEPT !.pc = "begin", !.i = 0,
                              !.attempt = batch.attempt + 1,
                              !.errors = batch.errors + 1]
            ELSE batch' = [batch EXCEPT !.pc = "done",
                              !.errors = batch.errors + 1,
                              !.status = IF check = "corrupt" THEN "Corrupted"
                                         ELSE "CheckError"]
       ELSE batch' = [batch EXCEPT !.pc = "done", !.errors = batch.errors + 1,
                         !.status = "DatabaseError"]
    /\ UNCHANGED <<diskTracks, diskFingerprints, seq, caches, library, rb, svc, run, lastOp>>

\* BEGIN EXCLUSIVE TRANSACTION at the top of an attempt.
BatchBegin ==
    /\ batch.pc = "begin"
    /\ ~inTx
    /\ inTx' = TRUE
    /\ batch' = [batch EXCEPT !.pc = "delete"]
    /\ UNCHANGED <<diskTracks, diskFingerprints, tracks, fingerprints, seq,
                   caches, library, rb, svc, run, lastOp>>

\* Mutant of BatchDelete: the DELETE has no WHERE clause.
BatchDeleteAll ==
    /\ batch.pc = "delete"
    /\ fingerprints' = {}
    /\ batch' = [batch EXCEPT !.pc = "insert"]
    /\ UNCHANGED <<diskTracks, diskFingerprints, tracks, inTx, seq,
                   caches, library, rb, svc, run, lastOp>>

\* DELETE FROM fingerprints WHERE track_id = ?
BatchDelete ==
    /\ batch.pc = "delete"
    /\ fingerprints' = fingerprints \ PostingsOf(fingerprints, batch.t)
    /\ batch' = [batch EXCEPT !.pc = "insert"]
    /\ UNCHANGED <<diskTracks, diskFingerprints, tracks, inTx, seq,
                   caches, library, rb, svc, run, lastOp>>

\* executemany INSERT of one chunk; a row that is already there (in this
\* chunk or in one inserted before) raises IntegrityError.
BatchInsert ==
    /\ batch.pc = "insert"
    /\ LET chunk == Chunk(batch.fps, batch.i) IN
       IF NoDuplicate(chunk) /\ Rows(batch.t, chunk) \cap fingerprints = {}
       THEN /\ fingerprints' = fingerprints \cup Rows(batch.t, chunk)
            /\ batch' = [batch EXCEPT !.pc = "commit"]
            /\ UNCHANGED <<diskTracks, diskFingerprints, tracks, inTx, seq,
                           caches, library, rb, svc, run, lastOp>>
       ELSE \E check \in {"ok", "corrupt", "error"} : BatchHandler(check)

\* self.conn.commit() after EACH chunk; then BEGIN EXCLUSIVE for the next
\* chunk if there is one.
BatchCommit ==
    /\ batch.pc = "commit"
    /\ diskTracks' = tracks
    /\ diskFingerprints' = fingerprints
    /\ inTx' = FALSE
    /\ batch' = [batch EXCEPT !.pc =
                    IF batch.i + MAX_BATCH_SIZE < Len(batch.fps)
                    THEN "rebegin" ELSE "update"]
    /\ UNCHANGED <<tracks, fingerprints, seq, caches, library, rb, svc, run, lastOp>>

BatchRebegin ==
    /\ batch.pc = "rebegin"
    /\ ~inTx
    /\ inTx' = TRUE
    /\ batch' = [batch EXCEPT !.pc = "insert", !.i = batch.i + MAX_BATCH_SIZE]
    /\ UNCHANGED <<diskTracks, diskFingerprints, tracks, fingerprints, seq,
                   caches, library, rb, svc, run, lastOp>>

\* UPDATE tracks SET fingerprint_count = len(fingerprints) WHERE id = ?
\* (the statement opens a transaction of its own).
BatchUpdate ==
    /\ batch.pc = "update"
    /\ tracks' = IF batch.t \in DOMAIN tracks
                 THEN [tracks EXCEPT ![batch.t].fingerprint_count = Len(batch.fps)]
                 ELSE tracks
    /\ inTx' = TRUE
    /\ batch' = [batch EXCEPT !.pc = "final"]
    /\ UNCHANGED <<diskTracks, diskFingerprints, fingerprints, seq,
                   caches, library, rb, svc, run, lastOp>>

\* The last commit, then return.
BatchFinalCommit ==
    /\ batch.pc = "final"
    /\ diskTracks' = tracks
    /\ diskFingerprints' = fingerprints
    /\ inTx' = FALSE
    /\ BatchReturn("ok")
    /\ UNCHANGED <<tracks, fingerprints, seq, caches, library, rb, svc, run, lastOp>>

InCall == batch.pc \in {"begin", "delete", "insert", "commit", "rebegin",
                        "update", "final"}

\* A statement of the attempt raises sqlite3.DatabaseError (database locked,
\* disk I/O error, ...).
BatchError ==
    /\ InCall
    /\ \E check \in {"ok", "corrupt", "error"} : BatchHandler(check)

\* The process stops during add_fingerprints_batch; on restart the database
\* holds what was committed, and a new MusicDatabase object has empty caches.
Crash ==
    /\ InCall
    /\ tracks' = diskTracks
    /\ fingerprints' = diskFingerprints
    /\ inTx' = FALSE
    /\ trackCache' = EmptyTable
    /\ statsCache' = NoStats
    /\ cacheExpired' = FALSE
    /\ batch' = [batch EXCEPT !.pc = "crashed"]
    /\ run' = IdleRun
    /\ UNCHANGED <<diskTracks, diskFingerprints, seq, library, rb, svc, lastOp>>

\* Mutant of BatchExit: process_file without its except clause, so that an
\* exception of add_fingerprints_batch leaves process_music_folder.
BatchExitReraise ==
    /\ batch.pc \in {"done", "crashed"}
    /\ batch' = IdleBatch
    /\ run' = IF batch.pc = "done" /\ batch.caller = "ingest"
              THEN IF batch.status = "ok"
                   THEN [run EXCEPT !.pc = "file_done", !.result = "True"]
                   ELSE IdleRun
              ELSE run
    /\ UNCHANGED <<store, caches, library, rb, svc, lastOp>>

\* Control is back at the caller of add_fingerprints_batch: a direct caller,
\* process_file (which turns every exception into the result False), or,
\* after a crash, whoever opens the database next.
BatchExit ==
    /\ batch.pc \in {"done", "crashed"}
    /\ batch' = IdleBatch
    /\ run' = IF batch.pc = "done" /\ batch.caller = "ingest"
              THEN [run EXCEPT !.pc = "file_done",
                       !.result = IF batch.status = "ok" THEN "True" ELSE "False",
                       !.fatalAt = IF batch.status = "Corrupted" /\ run.fatalAt = 0
                                   THEN run.idx ELSE run.fatalAt]
              ELSE run
    /\ UNCHANGED <<store, caches, library, rb, svc, lastOp>>

\* One step of a call of add_fingerprints_batch that is in progress.
BatchStep ==
    \/ BatchBegin
    \/ BatchDelete
    \/ BatchInsert
    \/ BatchCommit
    \/ BatchRebegin
    \/ BatchUpdate
    \/ BatchFinalCommit
    \/ BatchError
    \/ BatchExit

\* ------------------------------------------------------ process_music_folder
\* process_music_folder(folder, config, reprocess) up to its loop: the files
\* are found and a MusicDatabase is opened.
StartRun(files, reprocess) ==
    /\ Idle
    /\ run' = [IdleRun EXCEPT !.pc = "loop", !.files = files, !.idx = 1,
                              !.reprocess = reprocess]
    /\ trackCache' = EmptyTable
    /\ statsCache' = NoStats
    /\ cacheExpired' = FALSE
    /\ lastOp' = Op("process_music_folder")
    /\ UNCHANGED <<store, library, rb, svc, batch>>

\* process_file for the next file, up to its return or to its call of
\* add_fingerprints_batch. meta_ok: extract_metadata returns a TrackInfo;
\* audio_ok: load_audio_file returns samples.
ProcessFile(meta_ok, audio_ok) ==
    /\ run.pc = "loop"
    /\ batch.pc = "idle"
    /\ run.idx <= Len(run.files)
    /\ LET p == run.files[run.idx]
           known == IdsOfPath(tracks, p)
           id == AddTrackReturn(tracks, seq, p)
           r == [run EXCEPT
                    !.snap = fingerprints,
                    !.ingested = \E u \in known :
                        /\ library[p] # << >>
                        /\ PostingsOf(fingerprints, u) = Rows(u, library[p])
                        /\ tracks[u].fingerprint_count = Len(library[p]),
                    !.count = IF known = {} THEN 0
                              ELSE tracks[CHOOSE u \in known : TRUE].fingerprint_count,
                    !.meta = meta_ok,
                    !.stored = (known # {}),
                    !.decoded = meta_ok /\ ~(id = ALREADY_EXISTS /\ ~run.reprocess)]
       IN
       IF ~meta_ok
       THEN /\ run' = [r EXCEPT !.pc = "file_done", !.result = "False"]
            /\ UNCHANGED <<store, caches, batch>>
       ELSE
         /\ known = {} => seq < MaxId
         /\ tracks' = AddTrackRows(tracks, seq, p)
         /\ diskTracks' = tracks'
         /\ IF id = ALREADY_EXISTS
            THEN UNCHANGED <<seq, caches>>
            ELSE /\ seq' = id
                 /\ trackCache' = Without(trackCache, id)
                 /\ statsCache' = NoStats
                 /\ UNCHANGED cacheExpired
         /\ UNCHANGED <<diskFingerprints, fingerprints, inTx>>
         /\ IF id = ALREADY_EXISTS /\ ~run.reprocess
            THEN /\ run' = [r EXCEPT !.pc = "file_done", !.result = "None"]
                 /\ UNCHANGED batch
            ELSE IF ~audio_ok \/ library[p] = << >>
            THEN /\ run' = [r EXCEPT !.pc = "file_done", !.result = "False"]
                 /\ UNCHANGED batch
            ELSE /\ run' = [r EXCEPT !.pc = "file"]
                 /\ BatchEnter(id, library[p], "ingest")
    /\ UNCHANGED <<library, rb, svc, lastOp>>

\* The loop body after process_file returned: the result is counted and the
\* loop goes on with the next file.
FileDone ==
    /\ run.pc = "file_done"
    /\ run' = [run EXCEPT !.pc = "loop", !.idx = run.idx + 1,
                  !.successful = run.successful + (IF run.result = "True" THEN 1 ELSE 0),
                  !.failed = run.failed + (IF run.result = "False" THEN 1 ELSE 0),
                  !.skipped = run.skipped + (IF run.result = "None" THEN 1 ELSE 0),
                  !.result = "", !.snap = {}, !.ingested = FALSE, !.count = 0,
                  !.meta = FALSE, !.decoded = FALSE, !.stored = FALSE]
    /\ UNCHANGED <<store, caches, library, rb, svc, batch, lastOp>>

\* After the loop: optimize_database, get_stats for the printed statistics,
\* and the end of the with block (commit, close).
EndRun ==
    /\ run.pc = "loop"
    /\ batch.pc = "idle"
    /\ run.idx > Len(run.files)
    /\ run' = IdleRun
    /\ trackCache' = EmptyTable
    /\ statsCache' = NoStats
    /\ cacheExpired' = FALSE
    /\ lastOp' = [Op("process_music_folder") EXCEPT
                     !.ret = StatsNow.total_fingerprints,
                     !.status = "done"]
    /\ UNCHANGED <<store, library, rb, svc, batch>>

\* ------------------------------------------------------------- find_matches
\* The query tokens: (hash, time_offset) pairs at two different times.
QueryFrames == {0, 1}
QueryTokens == Hashes \X QueryFrames
\* The position of a token in the enumeration of the queries.
TokenKey(tok) == tok[1] * 2 + tok[2]
\* The token lists of find_matches. What find_matches returns does not depend
\* on the order of the tokens (it groups them by hash and counts time
\* differences), so only lists in nondecreasing order are enumerated.
Queries ==
    {l \in UNION {[1..n -> QueryTokens] : n \in 0..MaxQuery} :
        \A k \in 1..(Len(l) - 1) : TokenKey(l[k]) <= TokenKey(l[k + 1])}

\* Config.min_match_confidence = 0.1, as a fraction <<numerator, denominator>>.
min_match_confidence == <<1, 10>>

\* Arithmetic on fractions with positive denominators.
FracAdd(a, b) == <<a[1] * b[2] + b[1] * a[2], a[2] * b[2]>>
FracMul(a, b) == <<a[1] * b[1], a[2] * b[2]>>
FracLeq(a, b) == a[1] * b[2] <= b[1] * a[2]
FracEq(a, b) == a[1] * b[2] = b[1] * a[2]
FracMin(a, b) == IF FracLeq(a, b) THEN a ELSE b

\* unique_hashes = list(hash_to_times.keys())
UniqueHashes(q) == {q[k][1] : k \in DOMAIN q}

\* if len(unique_hashes) > 1000
UseTempTable(q) == Cardinality(UniqueHashes(q)) > TEMP_TABLE_MIN

\* _find_matches_temp_table: the rows of fingerprints joined with the
\* temporary table of the query's hashes.
FindMatchesTempTable(fps, q) ==
    [raised |-> FALSE, rows |-> {r \in fps : r[1] \in UniqueHashes(q)}]

\* _find_matches_batched: the text of the SELECT is not an f-string, so it
\* holds the characters {placeholders} instead of the question marks, and
\* SQLite refuses it (OperationalError: unrecognized token "{") at the
\* first batch, whatever the store holds.
FindMatchesBatched(fps, q) ==
    IF UniqueHashes(q) = {} THEN [raised |-> FALSE, rows |-> {}]
    ELSE [raised |-> TRUE, rows |-> {}]

\* matches, by the path find_matches takes.
Retrieve(fps, q) ==
    IF UseTempTable(q) THEN FindMatchesTempTable(fps, q)
    ELSE FindMatchesBatched(fps, q)

\* track_time_diffs[t]: one time difference for every matching row of t and
\* every occurrence of its hash in the query.
Hits(m, q, t) == {h \in m \X DOMAIN q : h[1][2] = t /\ q[h[2]][1] = h[1][1]}

\* time_diff = db_time - query_time
TimeDiff(q, h) == h[1][3] - q[h[2]][2]

\* most_common_diff, aligned_count = Counter(time_diffs).most_common(1)[0],
\* for the time differences of the hits hs.
AlignedCount(q, hs) ==
    LET counts == {Cardinality({g \in hs : TimeDiff(q, g) = TimeDiff(q, h)}) : h \in hs} IN
    CHOOSE c \in counts : \A x \in counts : x <= c

\* Mutant of Confidence: the boosts apply from the thresholds on.
ConfidenceBoostFrom(a, h, n) ==
    LET base == FracAdd(FracMul(<<a, h>>, <<6, 10>>), FracMul(<<a, n>>, <<4, 10>>))
        boosted == IF a >= BOOST_HIGH THEN FracMul(base, <<12, 10>>)
                   ELSE IF a >= BOOST_LOW THEN FracMul(base, <<11, 10>>)
                   ELSE base
    IN  FracMin(boosted, <<1, 1>>)

\* The confidence computed from aligned_count a, len(time_diffs) h and
\* total_query_hashes n.
Confidence(a, h, n) ==
    LET alignment_score == <<a, h>>
        coverage_score == <<a, n>>
        base == FracAdd(FracMul(alignment_score, <<6, 10>>),
                        FracMul(coverage_score, <<4, 10>>))
        boosted == IF a > BOOST_HIGH THEN FracMul(base, <<12, 10>>)
                   ELSE IF a > BOOST_LOW THEN FracMul(base, <<11, 10>>)
                   ELSE base
    IN  FracMin(boosted, <<1, 1>>)

\* For every track with a matching row: len(time_diffs), aligned_count and
\* the confidence computed from them.
MatchTable(m, q) ==
    [t \in {r[2] : r \in m} |->
        LET hs == Hits(m, q, t)
            a == AlignedCount(q, hs)
        IN  [hits |-> Cardinality(hs), aligned |-> a,
             confidence |-> Confidence(a, Cardinality(hs), Len(q))]]

\* The tracks appended to track_scores: those that are not skipped by
\* "if len(time_diffs) < self.config.min_absolute_matches: continue" and
\* that satisfy "if confidence >= self.config.min_match_confidence".
TrackScores(tab) ==
    {t \in DOMAIN tab :
        /\ tab[t].hits >= min_absolute_matches
        /\ FracLeq(min_match_confidence, tab[t].confidence)}

\* track_scores.sort(key=lambda x: (x[1], x[2]), reverse=True): by confidence,
\* then by aligned count, both descending; the sort is stable, so tracks with
\* equal keys stay in the order of track_time_diffs, which is the order of
\* the rows (ORDER BY track_id).
SortsBefore(tab, u, t) ==
    \/ ~FracLeq(tab[u].confidence, tab[t].confidence)
    \/ /\ FracEq(tab[u].confidence, tab[t].confidence)
       /\ tab[u].aligned > tab[t].aligned
    \/ /\ FracEq(tab[u].confidence, tab[t].confidence)
       /\ tab[u].aligned = tab[t].aligned
       /\ u < t

\* track_scores after the sort.
Sorted(tab) ==
    LET S == TrackScores(tab) IN
    [i \in 1..Cardinality(S) |->
        CHOOSE t \in S : Cardinality({u \in S : SortsBefore(tab, u, t)}) = i - 1]

\* track_scores[:10]
TopTracks(tab) ==
    LET sorted == Sorted(tab) IN SubSeq(sorted, 1, Min(TOP_N, Len(sorted)))

\* The loop over track_scores[:10]: the (track_info, confidence) pairs of the
\* tracks of top for which get_track finds a TrackInfo; track is the id the
\* entry was made for.
Results(tab, top, tbl, cache) ==
    LET Known(t) == t \in DOMAIN cache \/ t \in DOMAIN tbl
        kept == SelectSeq(top, Known)
    IN  [i \in 1..Len(kept) |->
            [track |-> kept[i],
             info |-> GetTrackOf(tbl, cache, kept[i]),
             confidence |-> tab[kept[i]].confidence]]

\* The track cache after the get_track calls of that loop.
CacheAfterMatches(top, tbl, cache) ==
    LET new == {top[i] : i \in DOMAIN top} \cap (DOMAIN tbl \ DOMAIN cache)
    IN  cache @@ [t \in new |-> TrackInfoOf(tbl[t])]

\* _process_matches: the list returned, the cache afterwards and the number
\* of SELECT statements get_track executed.
ProcessMatches(m, q, tbl, cache) ==
    LET tab == MatchTable(m, q)
        top == TopTracks(tab)
    IN  [result |-> Results(tab, top, tbl, cache),
         cache |-> CacheAfterMatches(top, tbl, cache),
         selects |-> Cardinality({top[i] : i \in DOMAIN top} \ DOMAIN cache)]

\* Mutant of FindMatches: no early return for an empty list, and the
\* temporary-table path whatever the number of hashes.
FindMatchesTempAlways(fps, tbl, cache, q) ==
    LET got == FindMatchesTempTable(fps, q)
        pm == ProcessMatches(got.rows, q, tbl, cache)
    IN  [status |-> "ok", result |-> pm.result, rows |-> got.rows,
         reads |-> 4 + pm.selects, cache |-> pm.cache, tx |-> TRUE]

\* What find_matches(q) does on store (fps, tbl) with track cache cache: its
\* outcome, the list it returns, the rows it retrieved, the number of
\* statements it executed, the track cache afterwards, and whether it has
\* opened a transaction (DELETE FROM query_hashes and the INSERT of the
\* temporary-table path open one that find_matches does not commit).
FindMatches(fps, tbl, cache, q) ==
    IF q = << >>
    THEN [status |-> "ok", result |-> << >>, rows |-> {}, reads |-> 0,
          cache |-> cache, tx |-> FALSE]
    ELSE LET got == Retrieve(fps, q) IN
         IF got.raised
         THEN [status |-> "OperationalError", result |-> << >>, rows |-> {},
               reads |-> 1, cache |-> cache, tx |-> FALSE]
         ELSE LET pm == ProcessMatches(got.rows, q, tbl, cache) IN
              [status |-> "ok", result |-> pm.result, rows |-> got.rows,
               reads |-> 4 + pm.selects, cache |-> pm.cache,
               tx |-> UseTempTable(q)]

find_matches(q) ==
    /\ Idle
    /\ \E out \in {FindMatches(fingerprints, tracks, trackCache, q)} :
       /\ lastOp' = [Op("find_matches") EXCEPT !.query = q,
                        !.status = out.status, !.result = out.result,
                        !.rows = out.rows, !.reads = out.reads]
       /\ trackCache' = out.cache
       /\ inTx' = (inTx \/ out.tx)
    /\ UNCHANGED <<diskTracks, diskFingerprints, tracks, fingerprints, seq,
                   statsCache, cacheExpired, library, rb, svc, batch, run>>

\* ------------------------------------------------------ recognize_audio
\* recognize_audio_optimized for a buffer whose fingerprints are q. It opens a
\* MusicDatabase object of its own (an empty track cache) on the same
\* database and closes it when it is done.
recognize_audio_optimized(q) ==
    /\ Idle
    /\ \E out \in {FindMatches(fingerprints, tracks, EmptyTable, q)} :
       lastOp' = IF Len(q) < MIN_FINGERPRINTS
                 THEN [Op("recognize_audio_optimized") EXCEPT !.query = q]
                 ELSE [Op("recognize_audio_optimized") EXCEPT !.query = q,
                          !.status = out.status, !.result = out.result,
                          !.rows = out.rows, !.reads = out.reads]
    /\ UNCHANGED <<store, caches, library, rb, svc, batch, run>>

\* ------------------------------------------------------ gather_lyrics_all
\* LRCLIBGatherer.gather_lyrics_all, run on a MusicDatabase object of its
\* own: it sets lyrics_file_path for the tracks S, among those without
\* lyrics, whose .lrc file exists or could be fetched, by UPDATE statements
\* on the cursor, and commits. The track cache of the object modelled here
\* is not told. While that object holds an open transaction the database is
\* locked for the writer.
gather_lyrics_all(S) ==
    /\ Idle
    /\ ~inTx
    /\ S # {}
    /\ S \subseteq {t \in DOMAIN tracks : tracks[t].lyrics_file_path = "None"}
    /\ tracks' = [t \in DOMAIN tracks |->
                     IF t \in S THEN [tracks[t] EXCEPT !.lyrics_file_path = "lrc"]
                     ELSE tracks[t]]
    /\ diskTracks' = tracks'
    /\ lastOp' = Op("gather_lyrics_all")
    /\ UNCHANGED <<diskFingerprints, fingerprints, inTx, seq, caches, library, rb, svc,
                   batch, run>>

\* ------------------------------------------------------------ compute_stft
\* The window and hop sizes compute_stft is called with (the defaults are
\* 2048 and 512).
WindowSizes == {2, 4, 8}
HopSizes == {1, 2, 3}

\* frame_count = 1 + (len(audio_data) - window_size) // hop_size, with the
\* floor division of Python.
FrameCount(n, W, H) == 1 + ((n - W) \div H)

\* compute_stft for n samples: np.zeros((frame_count, 1 + window_size // 2))
\* raises ValueError (negative dimensions are not allowed) when frame_count
\* is negative; otherwise the loop fills frame_count rows and the matrix is
\* returned in dB.
ComputeStft(n, W, H) ==
    IF FrameCount(n, W, H) < 0
    THEN [status |-> "ValueError", rows |-> 0, cols |-> 0]
    ELSE [status |-> "ok", rows |-> FrameCount(n, W, H), cols |-> 1 + (W \div 2)]

compute_stft(n, W, H) ==
    /\ Idle
    /\ lastOp' = [Op("compute_stft") EXCEPT !.args = <<n, W, H>>,
                     !.status = ComputeStft(n, W, H).status,
                     !.ret = ComputeStft(n, W, H).rows,
                     !.count = ComputeStft(n, W, H).cols]
    /\ UNCHANGED <<store, caches, library, rb, svc, batch, run>>

\* ----------------------------------------------------------- extract_peaks
\* Config.peak_threshold_db, on the scale of the levels 0..MaxLevel.
peak_threshold_db == 0

\* The spectrograms: a row for every frame, a level for every bin.
Spectrograms == [1..SpecFrames -> [1..SpecBins -> 0..MaxLevel]]

\* The index maximum_filter reads for position i of an axis of length n in
\* its default mode "reflect" (d c b a | a b c d | d c b a).
Reflect(i, n) ==
    LET j == (i - 1) % (2 * n) IN IF j < n THEN j + 1 ELSE 2 * n - j

\* maximum_filter(spectrogram, footprint=neighborhood) at cell (t, f): the
\* largest value under the (2r+1) x (2r+1) footprint centred on the cell.
MaximumFilter(S, t, f) ==
    LET r == neighborhood_size
        under == {S[Reflect(t + dt, Len(S))][Reflect(f + df, Len(S[1]))] :
                     dt \in (0 - r)..r, df \in (0 - r)..r}
    IN  CHOOSE m \in under : \A x \in under : x <= m

\* The coordinates extract_peaks returns:
\* local_max & (spectrogram > peak_threshold_db).
ExtractPeaks(S) ==
    {c \in (1..Len(S)) \X (1..Len(S[1])) :
        /\ MaximumFilter(S, c[1], c[2]) = S[c[1]][c[2]]
        /\ S[c[1]][c[2]] > peak_threshold_db}

extract_peaks(S) ==
    /\ Idle
    /\ lastOp' = [Op("extract_peaks") EXCEPT !.args = S, !.out = ExtractPeaks(S)]
    /\ UNCHANGED <<store, caches, library, rb, svc, batch, run>>

\* ------------------------------------------------------------- build_tokens
\* The bins of a spectrogram row: compute_stft makes 1 + window_size // 2
\* columns, so a peak has a bin from 0 to window_size // 2 inclusive.
MaxBin == stft_window_size \div 2

\* The bins and time deltas of the constellation pairs that are hashed: the
\* ends and the middle of the range of the bins, and the ends of the range
\* of the accepted deltas.
PairBins == {0, 1, 2, 511, 512, MaxBin - 2, MaxBin - 1, MaxBin}
PairDeltas == {min_time_delta, min_time_delta + 1, max_time_delta}

\* hash = (anchor.bin & 0x3FF) << 22 | (target.bin & 0x3FF) << 12
\*        | (delta & 0xFFF)
\* The three fields do not overlap, so | adds them. The value needs 32 bits;
\* it is kept as <<hi, lo>> with hash = hi * 2^22 + lo and lo < 2^22.
PackHash(anchor_bin, target_bin, delta) ==
    <<anchor_bin % 1024, (target_bin % 1024) * 4096 + (delta % 4096)>>

\* One accepted pair (anchor, target) of build_tokens is hashed.
build_tokens(anchor_bin, target_bin, delta) ==
    /\ Idle
    /\ delta \in min_time_delta..max_time_delta
    /\ lastOp' = [Op("build_tokens") EXCEPT
                     !.args = <<anchor_bin, target_bin, delta>>,
                     !.result = PackHash(anchor_bin, target_bin, delta)]
    /\ UNCHANGED <<store, caches, library, rb, svc, batch, run>>

\* The statements of the lyrics gatherer executed on the cursor of this
\* MusicDatabase object: UPDATE tracks SET lyrics_file_path = ? WHERE id = ?
\* for the tracks S, among those without lyrics, and the commit. The track
\* cache is not touched.
update_lyrics(S) ==
    /\ Idle
    /\ S # {}
    /\ S \subseteq {t \in DOMAIN tracks : tracks[t].lyrics_file_path = "None"}
    /\ tracks' = [t \in DOMAIN tracks |->
                     IF t \in S THEN [tracks[t] EXCEPT !.lyrics_file_path = "lrc"]
                     ELSE tracks[t]]
    /\ diskTracks' = tracks'
    /\ diskFingerprints' = fingerprints
    /\ inTx' = FALSE
    /\ lastOp' = Op("update_lyrics")
    /\ UNCHANGED <<fingerprints, seq, caches, library, rb, svc, batch, run>>

\* -------------------------------------------------------- RecognitionBuffer
\* The last n elements of a sequence (a deque with maxlen n keeps those).
LastOf(q, n) == IF Len(q) <= n THEN q ELSE SubSeq(q, Len(q) - n + 1, Len(q))

\* The samples of an add_audio call: audio_data.flatten() of an array of
\* shape (frames, channels), numbered in the order in which they are added.
SamplesOf(first, frames, channels) == [k \in 1..(frames * channels) |-> first + k]

\* Mutant: the methods do not take the lock.
LockFreeAlways(b) == TRUE

\* self.lock can be acquired.
LockFree(b) == b.lock = 0

\* Thread i calls a method of the buffer and enters its with self.lock block.
BufferEnter(i, first, frames, channels) ==
    /\ rb.th[i].pc = "idle"
    /\ LockFree(rb)
    /\ rb' = [rb EXCEPT !.lock = i,
                        !.th[i] = [pc |-> first, frames |-> frames,
                                   channels |-> channels, ret |-> "",
                                   chunk |-> << >>, since |-> 0,
                                   recent |-> << >>]]
    /\ UNCHANGED <<store, caches, library, batch, run, svc, lastOp>>

\* Thread i leaves the with block (the lock is released) and the method
\* returns.
BufferLeave(b, i) == [b EXCEPT !.lock = 0, !.th[i].pc = "idle"]

\* add_audio(audio_data), audio_data of shape (frames, channels).
add_audio(i, frames, channels) ==
    /\ rb.next + frames * channels <= MaxAdded
    /\ BufferEnter(i, "extend", frames, channels)

\* self.buffer.extend(audio_data.flatten())
AddExtend(i) ==
    /\ rb.th[i].pc = "extend"
    /\ LET new == SamplesOf(rb.next, rb.th[i].frames, rb.th[i].channels) IN
       rb' = [rb EXCEPT !.buffer = LastOf(rb.buffer \o new, target_samples),
                        !.recent = LastOf(rb.recent \o new, target_samples),
                        !.next = rb.next + Len(new),
                        !.since = rb.since + Len(new),
                        !.th[i].pc = "count"]
    /\ UNCHANGED <<store, caches, library, batch, run, svc, lastOp>>

\* self.samples_added += len(audio_data): the length of the first axis.
AddCount(i) ==
    /\ rb.th[i].pc = "count"
    /\ rb' = BufferLeave([rb EXCEPT !.samples_added =
                              rb.samples_added + rb.th[i].frames], i)
    /\ UNCHANGED <<store, caches, library, batch, run, svc, lastOp>>

get_recognition_chunk(i) ==
    /\ i \in Threads
    /\ BufferEnter(i, "check", 0, 0)

\* if self.samples_added >= self.target_samples
\*    and len(self.buffer) >= self.target_samples; else return None
GetCheck(i) ==
    /\ rb.th[i].pc = "check"
    /\ rb' = IF rb.samples_added >= target_samples /\ Len(rb.buffer) >= target_samples
             THEN [rb EXCEPT !.th[i].pc = "reset", !.th[i].since = rb.since]
             ELSE BufferLeave([rb EXCEPT !.th[i].ret = "None"], i)
    /\ UNCHANGED <<store, caches, library, batch, run, svc, lastOp>>

\* self.samples_added = 0
GetReset(i) ==
    /\ rb.th[i].pc = "reset"
    /\ rb' = [rb EXCEPT !.samples_added = 0, !.since = 0, !.th[i].pc = "copy"]
    /\ UNCHANGED <<store, caches, library, batch, run, svc, lastOp>>

\* return np.array(self.buffer, dtype=np.float32)
GetCopy(i) ==
    /\ rb.th[i].pc = "copy"
    /\ rb' = BufferLeave([rb EXCEPT !.th[i].ret = "chunk",
                                    !.th[i].chunk = rb.buffer,
                                    !.th[i].recent = rb.recent], i)
    /\ UNCHANGED <<store, caches, library, batch, run, svc, lastOp>>

clear(i) ==
    /\ i \in Threads
    /\ BufferEnter(i, "clear", 0, 0)

\* self.buffer.clear()
ClearBuffer(i) ==
    /\ rb.th[i].pc = "clear"
    /\ rb' = [rb EXCEPT !.buffer = << >>, !.th[i].pc = "zero"]
    /\ UNCHANGED <<store, caches, library, batch, run, svc, lastOp>>

\* self.samples_added = 0
ClearCount(i) ==
    /\ rb.th[i].pc = "zero"
    /\ rb' = BufferLeave([rb EXCEPT !.samples_added = 0, !.since = 0], i)
    /\ UNCHANGED <<store, caches, library, batch, run, svc, lastOp>>

\* ------------------------------------------------------- FingerprintService
\* start(), called by the controlling thread: nothing if self.running; else
\* running is set and a new thread is created and started on
\* _recognition_loop.
start ==
    /\ svc.ctl = "idle"
    /\ ~svc.running
    /\ svc.started < MaxStarts
    /\ svc' = [svc EXCEPT !.running = TRUE,
                          !.started = svc.started + 1,
                          !.recognition_thread = svc.started + 1,
                          !.loops = svc.loops @@ ((svc.started + 1) :> "while")]
    /\ UNCHANGED <<store, caches, library, batch, run, rb, lastOp>>

\* stop() up to its join: nothing if not self.running; else running is
\* cleared and the caller waits in recognition_thread.join(timeout=5.0).
stop ==
    /\ svc.ctl = "idle"
    /\ svc.running
    /\ svc' = [svc EXCEPT !.running = FALSE, !.ctl = "join"]
    /\ UNCHANGED <<store, caches, library, batch, run, rb, lastOp>>

\* join returns because the recognition thread has ended.
JoinReturn ==
    /\ svc.ctl = "join"
    /\ svc.recognition_thread \notin DOMAIN svc.loops
    /\ svc' = [svc EXCEPT !.ctl = "idle"]
    /\ UNCHANGED <<store, caches, library, batch, run, rb, lastOp>>

\* join returns after 5 seconds while the recognition thread is still in
\* _process_recognition (queue.get and the sleep after an error take less).
JoinTimeout ==
    /\ svc.ctl = "join"
    /\ svc.recognition_thread \in DOMAIN svc.loops
    /\ svc.loops[svc.recognition_thread] = "process"
    /\ svc' = [svc EXCEPT !.ctl = "idle"]
    /\ UNCHANGED <<store, caches, library, batch, run, rb, lastOp>>

\* while self.running: thread k goes on to queue.get, or leaves the loop and
\* ends.
LoopWhile(k) ==
    /\ k \in DOMAIN svc.loops
    /\ svc.loops[k] = "while"
    /\ svc' = IF svc.running
              THEN [svc EXCEPT !.loops[k] = "get"]
              ELSE [svc EXCEPT !.loops = Without(svc.loops, k)]
    /\ UNCHANGED <<store, caches, library, batch, run, rb, lastOp>>

\* self.recognition_queue.get(timeout=...): a chunk, or Empty after the
\* timeout.
LoopGet(k, got) ==
    /\ k \in DOMAIN svc.loops
    /\ svc.loops[k] = "get"
    /\ svc' = [svc EXCEPT !.loops[k] = IF got THEN "process" ELSE "while"]
    /\ UNCHANGED <<store, caches, library, batch, run, rb, lastOp>>

\* _process_recognition returns (or raises, and the thread sleeps a second).
LoopProcess(k) ==
    /\ k \in DOMAIN svc.loops
    /\ svc.loops[k] = "process"
    /\ svc' = [svc EXCEPT !.loops[k] = "while"]
    /\ UNCHANGED <<store, caches, library, batch, run, rb, lastOp>>

\* The catalog store under direct calls of its writers, with the steps of
\* add_fingerprints_batch, its failures and a stop of the process.
Next ==
    \/ \E p \in Paths : add_track(p)
    \/ \E t \in TrackIds : delete_track(t)
    \/ \E t \in TrackIds, toks \in TokenLists : add_fingerprints_batch(t, toks)
    \/ BatchStep
    \/ Crash

Spec == Init /\ [][Next]_vars

\* The store with its statistics: direct calls, get_stats and the passing of time.
NextStats ==
    \/ \E p \in Paths : add_track(p)
    \/ \E t \in TrackIds : delete_track(t)
    \/ \E t \in TrackIds, toks \in TokenLists : add_fingerprints(t, toks)
    \/ get_stats
    \/ Tick

SpecStats == Init /\ [][NextStats]_vars

\* The ingestion coordinator: runs of process_music_folder over a folder
\* whose files yield the fingerprints of library, and delete_track between runs.
InitIngest ==
    /\ diskTracks = EmptyTable
    /\ diskFingerprints = {}
    /\ tracks = EmptyTable
    /\ fingerprints = {}
    /\ inTx = FALSE
    /\ seq = 0
    /\ trackCache = EmptyTable
    /\ statsCache = NoStats
    /\ cacheExpired = FALSE
    /\ library \in [Paths -> FileContents]
    /\ rb = NewBuffer
    /\ svc = NewService
    /\ batch = IdleBatch
    /\ run = IdleRun
    /\ lastOp = Op("init")

NextIngest ==
    \/ \E files \in FileLists, reprocess \in BOOLEAN : StartRun(files, reprocess)
    \/ \E meta_ok \in BOOLEAN, audio_ok \in BOOLEAN : ProcessFile(meta_ok, audio_ok)
    \/ FileDone
    \/ EndRun
    \/ \E t \in TrackIds : delete_track(t)
    \/ BatchStep
    \/ Crash

SpecIngest == InitIngest /\ [][NextIngest]_vars

\* The store under direct calls when no statement fails for an outside reason
\* (no lock, no I/O error, no stop of the process): an attempt of
\* add_fingerprints_batch fails only when its own INSERT raises.
NextQuiet ==
    \/ \E p \in Paths : add_track(p)
    \/ \E t \in TrackIds : delete_track(t)
    \/ \E t \in TrackIds, toks \in TokenLists : add_fingerprints_batch(t, toks)
    \/ BatchBegin
    \/ BatchDelete
    \/ BatchInsert
    \/ BatchCommit
    \/ BatchRebegin
    \/ BatchUpdate
    \/ BatchFinalCommit
    \/ BatchExit

SpecQuiet == Init /\ [][NextQuiet]_vars

\* The store under direct calls of all its writers of postings, with failures
\* and a stop of the process. The lists written are an empty one, a list of
\* one token and a list that spans more than one chunk.
NextFrame ==
    \/ \E p \in Paths : add_track(p)
    \/ \E t \in TrackIds : delete_track(t)
    \/ \E t \in TrackIds, toks \in FileContents : add_fingerprints(t, toks)
    \/ \E t \in TrackIds, toks \in FileContents : add_fingerprints_batch(t, toks)
    \/ BatchStep
    \/ Crash

SpecFrame == Init /\ [][NextFrame]_vars

\* The matcher: find_matches and recognition on stores built by add_track,
\* add_fingerprints, delete_track and the lyrics gatherer. The store starts
\* empty, or holding the postings with track_id -1 that a file ingested a
\* second time with reprocess leaves behind once its track is deleted.
InitMatch ==
    /\ \E orphan \in BOOLEAN :
          /\ fingerprints = IF orphan THEN Rows(ALREADY_EXISTS, LongList) ELSE {}
          /\ seq = IF orphan THEN 1 ELSE 0
    /\ diskFingerprints = fingerprints
    /\ diskTracks = EmptyTable
    /\ tracks = EmptyTable
    /\ inTx = FALSE
    /\ trackCache = EmptyTable
    /\ statsCache = NoStats
    /\ cacheExpired = FALSE
    /\ library = [p \in Paths |-> << >>]
    /\ rb = NewBuffer
    /\ svc = NewService
    /\ batch = IdleBatch
    /\ run = IdleRun
    /\ lastOp = Op("init")

NextMatch ==
    \/ \E p \in Paths : add_track(p)
    \/ \E t \in TrackIds : delete_track(t)
    \/ \E t \in TrackIds, toks \in FileContents : add_fingerprints(t, toks)
    \/ \E S \in SUBSET TrackIds : gather_lyrics_all(S)
    \/ \E q \in Queries : find_matches(q)
    \/ \E q \in Queries : recognize_audio_optimized(q)

SpecMatch == InitMatch /\ [][NextMatch]_vars

\* AudioProcessor.compute_stft called with buffers of every length.
NextStft ==
    \E n \in 0..MaxSamples, W \in WindowSizes, H \in HopSizes : compute_stft(n, W, H)

SpecStft == Init /\ [][NextStft]_vars

\* AudioProcessor.extract_peaks called with every spectrogram.
NextPeaks == \E S \in Spectrograms : extract_peaks(S)

SpecPeaks == Init /\ [][NextPeaks]_vars

\* The hasher applied to the pairs of PairBins and PairDeltas.
NextHash ==
    \E a \in PairBins, t \in PairBins, d \in PairDeltas : build_tokens(a, t, d)

SpecHash == Init /\ [][NextHash]_vars

\* One object on which tracks are added, deleted and read, and through which
\* the lyrics gatherer updates lyrics_file_path.
NextTrack ==
    \/ \E p \in Paths : add_track(p)
    \/ \E t \in TrackIds : delete_track(t)
    \/ \E t \in TrackIds : get_track(t)
    \/ \E S \in SUBSET TrackIds : update_lyrics(S)

SpecTrack == Init /\ [][NextTrack]_vars

\* A RecognitionBuffer called by the threads of Threads at the same time.
NextBuffer ==
    \E i \in Threads :
        \/ \E frames \in 0..MaxFrames, channels \in {1, 2} : add_audio(i, frames, channels)
        \/ AddExtend(i)
        \/ AddCount(i)
        \/ get_recognition_chunk(i)
        \/ GetCheck(i)
        \/ GetReset(i)
        \/ GetCopy(i)
        \/ clear(i)
        \/ ClearBuffer(i)
        \/ ClearCount(i)

SpecBuffer == Init /\ [][NextBuffer]_vars

\* A FingerprintService: one thread calls start and stop, the recognition
\* threads run _recognition_loop.
NextService ==
    \/ start
    \/ stop
    \/ JoinReturn
    \/ JoinTimeout
    \/ \E k \in 1..MaxStarts :
          \/ LoopWhile(k)
          \/ \E got \in BOOLEAN : LoopGet(k, got)
          \/ LoopProcess(k)

SpecService == Init /\ [][NextService]_vars

\* One object that maintains the store and queries it: tracks and postings
\* are added, tracks are deleted, and find_matches is called with every query.
NextScore ==
    \/ \E p \in Paths : add_track(p)
    \/ \E t \in TrackIds : delete_track(t)
    \/ \E t \in TrackIds, toks \in FileContents : add_fingerprints(t, toks)
    \/ \E q \in Queries : find_matches(q)

SpecScore == InitMatch /\ [][NextScore]_vars

\* =================================================================== claims

\* C1: in every reachable state, each stored track's fingerprint_count equals
\* the number of rows of the fingerprints table that carry its track_id (the
\* states between the chunk commits of add_fingerprints_batch and after a
\* failed attempt included). Stated of the committed tables.
C1_CountEqualsPostings ==
    \A t \in DOMAIN diskTracks :
        diskTracks[t].fingerprint_count
            = Cardinality(PostingsOf(diskFingerprints, t))

\* C2, as claimed: after add_fingerprints_batch(t, tokens) returns
\* successfully for a stored track t, the postings of t are exactly the rows
\* of tokens, for every token list.
C2_ExactAfterSuccess ==
    (batch.pc = "done" /\ batch.status = "ok" /\ batch.t \in DOMAIN tracks)
        => /\ PostingsOf(fingerprints, batch.t) = Rows(batch.t, batch.fps)
           /\ PostingsOf(diskFingerprints, batch.t) = Rows(batch.t, batch.fps)

\* C2 restricted to non-empty token lists: after add_fingerprints_batch(t,
\* tokens) returns successfully for a stored track t and a non-empty list, the
\* postings of t, as committed and as the connection sees them, are exactly
\* the rows of tokens.
C2_ExactAfterSuccessNonEmpty ==
    (batch.pc = "done" /\ batch.status = "ok" /\ batch.t \in DOMAIN tracks
     /\ batch.fps # << >>)
        => /\ PostingsOf(fingerprints, batch.t) = Rows(batch.t, batch.fps)
           /\ PostingsOf(diskFingerprints, batch.t) = Rows(batch.t, batch.fps)

\* C3: when add_fingerprints_batch(t, tokens) raises after its retries are
\* exhausted, the postings stored for t are the set stored before the call
\* or empty, and in the empty case the fingerprint_count of t is 0.
C3_FailureKeepsPriorOrNothing ==
    (batch.pc = "done" /\ batch.status = "DatabaseError"
     /\ batch.t \in DOMAIN diskTracks)
        => LET now == PostingsOf(diskFingerprints, batch.t) IN
           /\ now = batch.prior \/ now = {}
           /\ now = {} => diskTracks[batch.t].fingerprint_count = 0

\* C4: when the process stops during add_fingerprints_batch(t, tokens), the
\* committed store holds for t all the new tokens or exactly the prior
\* postings, and fingerprint_count of t is the number of postings stored.
C4_StopLeavesAllOrPrior ==
    (batch.pc = "crashed" /\ batch.t \in DOMAIN diskTracks)
        => LET now == PostingsOf(diskFingerprints, batch.t) IN
           /\ now = Rows(batch.t, batch.fps) \/ now = batch.prior
           /\ diskTracks[batch.t].fingerprint_count = Cardinality(now)

\* C8: add_track for a path that is already stored inserts nothing, returns
\* a value no new track gets, and the value carries the id of the existing
\* track: for two different stored tracks the returned values differ.
C8_AlreadyExistsCarriesId ==
    (lastOp.op = "add_track" /\ lastOp.flag)
        => /\ Cardinality(DOMAIN tracks) = lastOp.count
           /\ lastOp.ret \notin 1..(seq + 1)
           /\ \A u \in DOMAIN tracks :
                 tracks[u].audio_file_path # lastOp.path
                    => AddTrackReturn(tracks, seq, tracks[u].audio_file_path)
                          # lastOp.ret

\* C9, as claimed: at most MAX_RETRIES attempts are made, no attempt follows
\* a successful one, and a call raises only when its third attempt failed
\* (every earlier failure is retried).
C9_RetriedUntilThird ==
    /\ batch.attempt < MAX_RETRIES
    /\ batch.errors = IF batch.pc = "done" /\ batch.status # "ok"
                      THEN batch.attempt + 1 ELSE batch.attempt
    /\ (batch.pc = "done" /\ batch.status # "ok")
          => AttemptsMade(batch) = MAX_RETRIES

\* C9, amended: at most MAX_RETRIES attempts are made; no attempt follows a
\* successful one; a failed attempt is rolled back; it is retried while
\* fewer than MAX_RETRIES attempts have been made and the integrity check
\* before the retry answers ok; the failure of the third attempt is raised
\* (DatabaseError), and before the third attempt a call raises only because
\* of the integrity check.
C9_RetryPolicy ==
    /\ batch.attempt < MAX_RETRIES
    /\ batch.errors = IF batch.pc = "done" /\ batch.status # "ok"
                      THEN batch.attempt + 1 ELSE batch.attempt
    /\ (batch.pc = "done" /\ batch.status = "DatabaseError")
          => AttemptsMade(batch) = MAX_RETRIES
    /\ (batch.pc = "done" /\ batch.status \in {"Corrupted", "CheckError"})
          => AttemptsMade(batch) < MAX_RETRIES
    /\ ((batch.pc = "begin" /\ batch.attempt > 0)
        \/ (batch.pc = "done" /\ batch.status # "ok"))
          => /\ ~inTx
             /\ tracks = diskTracks
             /\ fingerprints = diskFingerprints

\* A call that raised after three failed attempts.
C9_Witness ==
    /\ batch.pc = "done" /\ batch.status = "DatabaseError"
    /\ batch.errors = MAX_RETRIES

\* C7: after delete_track(t) no row of fingerprints has track_id = t and the
\* row of t is gone, and the total_fingerprints of the next get_stats is
\* lower than the value get_stats reported just before the delete by exactly
\* the fingerprint_count t had.
C7_CascadeDelete ==
    /\ (lastOp.op = "delete_track" /\ lastOp.flag)
          => /\ PostingsOf(fingerprints, lastOp.t) = {}
             /\ PostingsOf(diskFingerprints, lastOp.t) = {}
             /\ lastOp.t \notin DOMAIN tracks
    /\ (lastOp.op = "get_stats" /\ lastOp.flag)
          => lastOp.ret = lastOp.before - lastOp.count

\* C5: ingesting a file with process_file and ingesting it again with
\* reprocess = true leaves the fingerprint_count of its track and the whole
\* fingerprints table as the first ingest left them.
C5_ReingestIdempotent ==
    (run.pc = "file_done" /\ run.result = "True" /\ run.reprocess /\ run.ingested)
        => /\ fingerprints = run.snap
           /\ diskFingerprints = run.snap
           /\ \A u \in IdsOfPath(tracks, run.files[run.idx]) :
                 tracks[u].fingerprint_count = run.count

\* C6: in every reachable state every committed row of fingerprints has a
\* track_id that is the id of a committed row of tracks.
C6_PostingsReferenceTracks ==
    \A r \in diskFingerprints : r[2] \in DOMAIN diskTracks

\* C10: when the integrity check between the attempts of
\* add_fingerprints_batch answers anything but ok, no further attempt is made
\* and the ingestion run stops: process_file is not entered for a later file.
C10_CorruptionStopsRun ==
    /\ (batch.pc = "done" /\ batch.status = "Corrupted")
          => AttemptsMade(batch) < MAX_RETRIES
    /\ run.fatalAt # 0
          => ~(run.pc \in {"file", "file_done"} /\ run.idx > run.fatalAt)

\* C11: a call of add_fingerprints_batch for a stored track with a token list
\* in which a (hash, anchor_frame) pair occurs more than once ends
\* successfully, with exactly one posting stored for each pair of the list
\* (calls ended by the integrity check between attempts set aside).
C11_DuplicatesCollapse ==
    (batch.pc = "done" /\ batch.t \in DOMAIN tracks /\ ~NoDuplicate(batch.fps)
     /\ batch.status \notin {"Corrupted", "CheckError"})
        => /\ batch.status = "ok"
           /\ PostingsOf(fingerprints, batch.t) = Rows(batch.t, batch.fps)
           /\ PostingsOf(diskFingerprints, batch.t) = Rows(batch.t, batch.fps)

\* The track a step of add_fingerprints, add_fingerprints_batch or
\* delete_track is applied to (0 for a step of another operation).
C12_Target ==
    IF batch.pc # "idle" THEN batch.t
    ELSE IF batch'.pc # "idle" THEN batch'.t
    ELSE IF lastOp'.op \in {"delete_track", "add_fingerprints"} THEN lastOp'.t
    ELSE 0

C13_NeverRaises ==
    (lastOp.op = "find_matches" /\ lastOp.query # << >>)
        => lastOp.status = "ok"

\* C14: for a non-empty query, the postings find_matches retrieves are the
\* stored postings whose hash is among the query's hashes, on the batched
\* path as on the temporary-table path: both paths retrieve what the
\* temporary-table join retrieves for the same hashes.
C14_PathsRetrieveSamePostings ==
    (lastOp.op = "find_matches" /\ lastOp.query # << >>)
        => /\ ~Retrieve(fingerprints, lastOp.query).raised
           /\ lastOp.rows = {r \in fingerprints : r[1] \in UniqueHashes(lastOp.query)}
           /\ lastOp.rows = FindMatchesTempTable(fingerprints, lastOp.query).rows

\* C15: every track find_matches returns has an aligned count (the number of
\* its hits that share the most frequent time difference) of at least
\* min_absolute_matches.
C15_AlignedAtLeastMin ==
    lastOp.op = "find_matches"
        => \A i \in DOMAIN lastOp.result :
              MatchTable(lastOp.rows, lastOp.query)[lastOp.result[i].track].aligned
                 >= min_absolute_matches

\* C16: for every entry find_matches returns, with a the aligned count of its
\* track, h the number of time differences collected for the track and n the
\* number of query tokens (duplicates counted), the confidence reported is
\* min(1, m * (0.6 * a / h + 0.4 * a / n)), where m is 1.2 when
\* a > BOOST_HIGH, 1.1 when BOOST_LOW < a <= BOOST_HIGH and 1.0 otherwise.
\* Stated with integers: confidence = min(m10 * (6an + 4ah), 100hn) / 100hn,
\* where m10 = 10 * m.
C16_ConfidenceFormula ==
    lastOp.op = "find_matches"
        => \A i \in DOMAIN lastOp.result :
              LET e == lastOp.result[i]
                  a == AlignedCount(lastOp.query, Hits(lastOp.rows, lastOp.query, e.track))
                  h == Cardinality(Hits(lastOp.rows, lastOp.query, e.track))
                  n == Len(lastOp.query)
                  m10 == IF a > BOOST_HIGH THEN 12
                         ELSE IF a > BOOST_LOW /\ a <= BOOST_HIGH THEN 11
                         ELSE 10
              IN  e.confidence[1] * (100 * h * n)
                     = e.confidence[2] * Min(m10 * (6 * a * n + 4 * a * h), 100 * h * n)

\* find_matches has returned an entry whose aligned count is above BOOST_LOW
\* and below the number of its hits.
C16_Witness ==
    /\ lastOp.op = "find_matches"
    /\ \E i \in DOMAIN lastOp.result :
          LET hs == Hits(lastOp.rows, lastOp.query, lastOp.result[i].track) IN
          /\ AlignedCount(lastOp.query, hs) > BOOST_LOW
          /\ AlignedCount(lastOp.query, hs) < Cardinality(hs)

\* The sort key of track t is above that of track u: higher confidence, or
\* equal confidence and higher aligned count.
C17_RanksAbove(tab, t, u) ==
    \/ ~FracLeq(tab[t].confidence, tab[u].confidence)
    \/ /\ FracEq(tab[t].confidence, tab[u].confidence)
       /\ tab[t].aligned > tab[u].aligned

\* C17: find_matches returns at most TOP_N entries, ordered by confidence
\* descending and among equal confidences by aligned count descending; the
\* entries are the highest-ranked stored tracks that pass the thresholds (as
\* many of them as fit, none left out that ranks above a returned one); and
\* each entry carries the TrackInfo stored for its track.
C17_TopRankedWithInfo ==
    (lastOp.op = "find_matches" /\ lastOp.status = "ok")
        => LET res == lastOp.result
               tab == MatchTable(lastOp.rows, lastOp.query)
               passing == TrackScores(tab) \cap DOMAIN tracks
               returned == {res[i].track : i \in DOMAIN res}
           IN  /\ Len(res) <= TOP_N
               /\ \A i, j \in DOMAIN res :
                     i < j => ~C17_RanksAbove(tab, res[j].track, res[i].track)
               /\ returned \subseteq passing
               /\ Len(res) = Min(TOP_N, Cardinality(passing))
               /\ \A u \in passing \ returned, t \in returned :
                     ~C17_RanksAbove(tab, u, t)
               /\ \A i \in DOMAIN res :
                     res[i].info = TrackInfoOf(tracks[res[i].track])

\* C18: find_matches returns what a call with the same token list on the
\* same store returns from a MusicDatabase object whose track cache is
\* empty: the list does not depend on the track cache.
C18_SameResultWhateverCache ==
    (lastOp.op = "find_matches" /\ lastOp.status = "ok")
        => lastOp.result
              = FindMatches(fingerprints, tracks, EmptyTable, lastOp.query).result

\* C19: a call of find_matches with an empty token list returns the empty
\* list, executes no statement, and leaves the store (the open transaction
\* included), the track cache and the stats cache unchanged.
C19_EmptyQueryTouchesNothing ==
    [][(lastOp'.op = "find_matches" /\ lastOp'.query = << >>)
          => /\ lastOp'.result = << >>
             /\ lastOp'.status = "ok"
             /\ lastOp'.reads = 0
             /\ UNCHANGED <<store, caches>>]_vars

\* find_matches has been called with an empty list on a store that holds
\* postings, by an object with a cached track.
C19_Witness ==
    /\ lastOp.op = "find_matches" /\ lastOp.query = << >>
    /\ fingerprints # {}
    /\ DOMAIN trackCache # {}

\* C20: recognition of a buffer that yields at least one token runs
\* find_matches on the tokens and returns what it returns, however few the
\* tokens are.
C20_NoTokenCutoff ==
    (lastOp.op = "recognize_audio_optimized" /\ Len(lastOp.query) >= 1)
        => LET out == FindMatches(fingerprints, tracks, EmptyTable, lastOp.query) IN
           /\ lastOp.reads = out.reads
           /\ lastOp.status = out.status
           /\ lastOp.result = out.result

\* C21: process_music_folder calls process_file once for every file found,
\* in order; whatever a file's result (True, False after a failure or an
\* exception, None), the loop goes on with the next file, and the run leaves
\* the loop only after the last file, with successful + failed + skipped
\* equal to the number of files found. (A stop of the process is no result of
\* a file and is excepted.)
C21_EveryFileCounted ==
    [][LET counted(r) == r.successful + r.failed + r.skipped IN
       /\ run'.pc \in {"file", "file_done"}
             => /\ run'.idx \in 1..Len(run'.files)
                /\ counted(run') = run'.idx - 1
       /\ run'.pc = "loop"
             => /\ run'.idx \in 1..(Len(run'.files) + 1)
                /\ counted(run') = run'.idx - 1
       /\ (run.pc = "file_done" /\ run'.pc # "file_done")
             => /\ run'.pc = "loop"
                /\ run'.idx = run.idx + 1
                /\ run'.files = run.files
       /\ (run.pc # "idle" /\ run'.pc = "idle" /\ batch'.pc # "crashed")
             => /\ run.idx = Len(run.files) + 1
                /\ counted(run) = Len(run.files)]_vars

\* The first file of a run has failed with the exception of a corrupted
\* database, and process_file has returned True for the second file.
C21_Witness ==
    /\ run.pc = "file_done"
    /\ run.idx = 2
    /\ run.fatalAt = 1
    /\ run.failed = 1
    /\ run.result = "True"

C23_StatsAfterWrite ==
    lastOp.op = "get_stats"
        => /\ lastOp.ret = Cardinality(fingerprints)
           /\ statsCache.total_fingerprints = Cardinality(fingerprints)
           /\ statsCache.total_tracks = Cardinality(DOMAIN tracks)

\* C24: compute_stft returns a matrix with 1 + floor((len - W) / H) rows when
\* len >= W and with 0 rows for every input shorter than W, those shorter by
\* more than H samples included, and never raises.
C24_FrameCount ==
    lastOp.op = "compute_stft"
        => LET n == lastOp.args[1]
               W == lastOp.args[2]
               H == lastOp.args[3]
           IN  /\ lastOp.status = "ok"
               /\ lastOp.ret = IF n >= W THEN 1 + ((n - W) \div H) ELSE 0

\* C25: extract_peaks reports a cell only if its value exceeds
\* peak_threshold_db and is strictly greater than every other cell of its
\* clipped (2r+1) x (2r+1) neighbourhood; so when cells of a neighbourhood
\* share its maximum, none of them is reported.
C25_StrictLocalMaximum ==
    lastOp.op = "extract_peaks"
        => LET S == lastOp.args
               r == neighborhood_size
               Near(c) == {d \in (1..Len(S)) \X (1..Len(S[1])) :
                              /\ d # c
                              /\ d[1] - c[1] \in (0 - r)..r
                              /\ d[2] - c[2] \in (0 - r)..r}
           IN  \A c \in lastOp.out :
                  /\ S[c[1]][c[2]] > peak_threshold_db
                  /\ \A d \in Near(c) : S[d[1]][d[2]] < S[c[1]][c[2]]

\* C26: under the published packing two constellation pairs get the same
\* hash only if they have the same anchor bin, target bin and time delta,
\* for the bins 0 to window_size / 2 inclusive and the deltas from
\* min_time_delta to max_time_delta.
C26_PackingInjective ==
    lastOp.op = "build_tokens"
        => \A a \in PairBins, t \in PairBins, d \in PairDeltas :
              PackHash(a, t, d) = lastOp.result => <<a, t, d>> = lastOp.args

\* C27: get_track(id) returns None for an id without a row in tracks and
\* does not cache the miss; for an id with a row it returns a TrackInfo equal
\* to the row stored at that time, whatever add_track, delete_track,
\* get_track and lyrics updates through the object came before.
C27_GetTrackReturnsRow ==
    lastOp.op = "get_track"
        => IF lastOp.t \in DOMAIN tracks
           THEN lastOp.result = <<TrackInfoOf(tracks[lastOp.t])>>
           ELSE lastOp.result = << >> /\ lastOp.t \notin DOMAIN trackCache

\* C28: when process_file returns False for a file that was not stored
\* before, the store holds no track row and no new postings for that file
\* afterwards, so that a later run without reprocess attempts it again.
C28_FailedFileLeavesNothing ==
    (run.pc = "file_done" /\ run.result = "False" /\ ~run.stored)
        => /\ IdsOfPath(tracks, run.files[run.idx]) = {}
           /\ IdsOfPath(diskTracks, run.files[run.idx]) = {}
           /\ fingerprints = run.snap
           /\ diskFingerprints = run.snap

\* C29: under any interleaving of add_audio, get_recognition_chunk and clear
\* from concurrent threads, get_recognition_chunk returns a chunk only when
\* at least target_samples samples have been added since the last returned
\* chunk or clear, and the chunk is then exactly the target_samples most
\* recently added samples; otherwise it returns None.
C29_ChunkOnlyWhenFull ==
    \A i \in Threads :
        /\ rb.th[i].ret \in {"", "None", "chunk"}
        /\ rb.th[i].ret = "chunk"
              => /\ rb.th[i].since >= target_samples
                 /\ Len(rb.th[i].chunk) = target_samples
                 /\ rb.th[i].chunk = rb.th[i].recent

\* A thread has got a chunk after the deque had dropped samples, and a call
\* of get_recognition_chunk by the other thread has returned None since.
C29_Witness ==
    \E i \in Threads :
        /\ rb.th[i].ret = "chunk"
        /\ rb.th[i].chunk[1] > 2
        /\ rb.lock = 0
        /\ \E j \in Threads \ {i} : rb.th[j].ret = "None"

\* C30: at any time at most one recognition thread of a FingerprintService is
\* executing _recognition_loop, whatever start and stop calls came before, a
\* start after a stop whose join timed out included.
C30_OneRecognitionThread ==
    Cardinality(DOMAIN svc.loops) <= 1

====
